---- MODULE Spec2Model ----
(***************************************************************************)
(* A model of esp32_p1meter.cpp: the P1 (DSMR) telegram reader.  Lines     *)
(* arrive on Serial2, readP1Serial cuts them at '\n', decodeTelegram       *)
(* checks the telegram checksum and stores readings in telegramObjects,    *)
(* and loop publishes the readings marked sendData.                        *)
(*                                                                         *)
(* A C string is a sequence of one-character strings; "" is the NUL byte.  *)
(* Indices into C arrays are kept 0-based as in the source, so array[i] of *)
(* the source is array[i + 1] here.                                        *)
(***************************************************************************)
EXTENDS Integers, Sequences, FiniteSets, TLC

VARIABLES
    telegramObjects,  \* per readout slot: value and sendData
    rx,               \* bytes waiting in the Serial2 receive buffer
    telegram,         \* the line last handed to decodeTelegram (up to the NUL)
    result,           \* what decodeTelegram last returned to readP1Serial
    pc,               \* where loop() is
    sent,             \* the sendMetric calls sendDataToBroker made in this turn of loop
    meter,            \* the meter: the telegram it is sending and how far it is
    fed,              \* lines decoded since the last start-marker line
    pass,             \* what happened since the last sendDataToBroker pass
    call              \* a function looked at on its own: its call and what it returns

vars == <<telegramObjects, rx, telegram, result, pc, sent, meter, fed, pass, call>>

-----------------------------------------------------------------------------
(* Characters *)

NUL == ""

\* The byte value of a character (ASCII).
Ord ==
    ("" :> 0) @@ ("\n" :> 10) @@ ("\r" :> 13) @@ ("!" :> 33) @@
    ("(" :> 40) @@ (")" :> 41) @@ ("*" :> 42) @@ ("+" :> 43) @@
    ("-" :> 45) @@ ("." :> 46) @@ ("/" :> 47) @@ (":" :> 58) @@
    ("0" :> 48) @@ ("1" :> 49) @@ ("2" :> 50) @@ ("3" :> 51) @@
    ("4" :> 52) @@ ("5" :> 53) @@ ("6" :> 54) @@ ("7" :> 55) @@
    ("8" :> 56) @@ ("9" :> 57) @@ ("A" :> 65) @@ ("B" :> 66) @@
    ("C" :> 67) @@ ("D" :> 68) @@ ("E" :> 69) @@ ("F" :> 70) @@
    ("G" :> 71) @@ ("H" :> 72) @@ ("I" :> 73) @@ ("J" :> 74) @@
    ("K" :> 75) @@ ("L" :> 76) @@ ("M" :> 77) @@ ("N" :> 78) @@
    ("O" :> 79) @@ ("P" :> 80) @@ ("Q" :> 81) @@ ("R" :> 82) @@
    ("S" :> 83) @@ ("T" :> 84) @@ ("U" :> 85) @@ ("V" :> 86) @@
    ("W" :> 87) @@ ("X" :> 88) @@ ("Y" :> 89) @@ ("Z" :> 90) @@
    ("a" :> 97) @@ ("b" :> 98) @@ ("c" :> 99) @@ ("d" :> 100) @@
    ("e" :> 101) @@ ("f" :> 102) @@ ("g" :> 103) @@ ("h" :> 104) @@
    ("i" :> 105) @@ ("j" :> 106) @@ ("k" :> 107) @@ ("l" :> 108) @@
    ("m" :> 109) @@ ("n" :> 110) @@ ("o" :> 111) @@ ("p" :> 112) @@
    ("q" :> 113) @@ ("r" :> 114) @@ ("s" :> 115) @@ ("t" :> 116) @@
    ("u" :> 117) @@ ("v" :> 118) @@ ("w" :> 119) @@ ("x" :> 120) @@
    ("y" :> 121) @@ ("z" :> 122)

IsDigit(c) == Ord[c] >= Ord["0"] /\ Ord[c] <= Ord["9"]

IsSpace(c) == c \in {"\n", "\r"}

\* The value of a hexadecimal digit, -1 for any other character.
HexVal(c) ==
    IF IsDigit(c) THEN Ord[c] - Ord["0"]
    ELSE IF Ord[c] >= Ord["A"] /\ Ord[c] <= Ord["F"] THEN Ord[c] - Ord["A"] + 10
    ELSE IF Ord[c] >= Ord["a"] /\ Ord[c] <= Ord["f"] THEN Ord[c] - Ord["a"] + 10
    ELSE -1

\* array[i] of the source, NUL past the end (the buffers are NUL terminated).
At(array, i) == IF i >= 0 /\ i < Len(array) THEN array[i + 1] ELSE NUL

\* The C string starting at array + from: the characters up to the first NUL.
CStr(array, from) ==
    LET stop == CHOOSE j \in from..Len(array) :
                    /\ At(array, j) = NUL
                    /\ \A k \in from..(j - 1) : At(array, k) # NUL
    IN  SubSeq(array, from + 1, stop)

Max(S) == CHOOSE m \in S : \A n \in S : n <= m

Min(S) == CHOOSE m \in S : \A n \in S : m <= n

-----------------------------------------------------------------------------
(* crc16 *)

\* a ^ b on unsigned values.
RECURSIVE Xor(_, _)
Xor(a, b) ==
    IF a = 0 THEN b
    ELSE IF b = 0 THEN a
    ELSE (((a % 2) + (b % 2)) % 2) + 2 * Xor(a \div 2, b \div 2)

\* a with bit k flipped.
FlipBit(a, k) == IF (a \div (2 ^ k)) % 2 = 0 THEN a + 2 ^ k ELSE a - 2 ^ k

\* 0xC001 xored in where 0xA001 belongs.
XorC001(a) == FlipBit(FlipBit(FlipBit(a, 0), 14), 15)

\* a ^ 0xA001: bits 15, 13 and 0 are the ones set in 0xA001.
XorA001(a) == FlipBit(FlipBit(FlipBit(a, 0), 13), 15)

\* The inner loop of crc16: i rounds of shift right, with 0xA001 xored in
\* when the bit shifted out was set.
RECURSIVE crc16Rounds(_, _)
crc16Rounds(crc, i) ==
    IF i = 0 THEN crc
    ELSE IF crc % 2 # 0 THEN crc16Rounds(XorA001(crc \div 2), i - 1)
    ELSE crc16Rounds(crc \div 2, i - 1)

\* The outer loop of crc16 from position pos on.  (The test on next only makes
\* each byte's value computed before the next byte is looked at.)
RECURSIVE crc16From(_, _, _, _)
crc16From(crc, buf, pos, len) ==
    IF pos >= len THEN crc
    ELSE LET next == crc16Rounds(Xor(crc, Ord[buf[pos + 1]]), 8)
         IN  IF next >= 0 THEN crc16From(next, buf, pos + 1, len) ELSE next

crc16(crc, buf, len) == crc16From(crc, buf, 0, len)

-----------------------------------------------------------------------------
(* isNumber, findCharInArrayRev, getValue *)

isNumber(res, len) ==
    \A i \in 0..(len - 1) :
        ~ ( /\ (Ord[At(res, i)] < Ord["0"] \/ Ord[At(res, i)] > Ord["9"])
            /\ (At(res, i) # "." /\ At(res, i) # NUL) )

\* The last index below len holding c, or -1.
findCharInArrayRev(array, c, len) ==
    LET hits == {i \in 0..(len - 1) : At(array, i) = c}
    IN  IF hits = {} THEN -1 ELSE Max(hits)

\* The value of a string of decimal digits.
RECURSIVE DigitsValue(_)
DigitsValue(ds) ==
    IF ds = <<>> THEN 0
    ELSE 10 * DigitsValue(SubSeq(ds, 1, Len(ds) - 1)) + (Ord[ds[Len(ds)]] - Ord["0"])

RECURSIVE StripZeros(_)
StripZeros(ds) ==
    IF ds # <<>> /\ ds[Len(ds)] = "0" THEN StripZeros(SubSeq(ds, 1, Len(ds) - 1))
    ELSE ds

\* atof on a buffer that passed isNumber (digits, '.' and NUL only): the
\* longest prefix "digits [. digits]" is converted, a second '.' ends it, and
\* no digits at all give 0.  The result stands for the double nearest to
\* int + 0.frac; frac is kept as digits, without trailing zeros.
atof(res) ==
    LET s == CStr(res, 0)
        n == Len(s)
        intEnd == Min({i \in 1..(n + 1) : i = n + 1 \/ ~IsDigit(s[i])})
        hasDot == intEnd <= n /\ s[intEnd] = "."
        fracEnd == IF hasDot
                   THEN Min({i \in (intEnd + 1)..(n + 1) : i = n + 1 \/ ~IsDigit(s[i])})
                   ELSE intEnd
    IN  [int  |-> DigitsValue(SubSeq(s, 1, intEnd - 1)),
         frac |-> IF hasDot THEN StripZeros(SubSeq(s, intEnd + 1, fracEnd - 1)) ELSE <<>>]

\* The remainder left after i more quotient bits of r / b have been produced,
\* and the last bit produced: <<remainder, bit>>.
RECURSIVE DivBits(_, _, _, _)
DivBits(r, b, last, i) ==
    IF i = 0 THEN <<r, last>>
    ELSE IF 2 * r >= b THEN DivBits(2 * r - b, b, 1, i - 1)
    ELSE DivBits(2 * r, b, 0, i - 1)

\* floor(log2(n / d)) for n, d > 0.
Log2Floor(n, d) ==
    IF n >= d THEN Max({e \in 0..30 : 2 ^ e <= n \div d})
    ELSE 0 - Min({e \in 1..30 : 2 ^ e >= (d + n - 1) \div n})

\* (long)(1000 * x), x the double atof returned, in IEEE-754 binary64 with
\* round-to-nearest-even as on the ESP32.  With v = int + 0.frac = n / d:
\*   - x = v + delta, where the 53-bit quotient n / d leaves the remainder
\*     that decides whether x was rounded down (delta < 0) or up;
\*   - when 1000 v is an integer m (at most 3 fraction digits), 1000 * x
\*     rounds to a double below m, and truncates to m - 1, exactly when x was
\*     rounded down by more than half the gap between m and the double
\*     below it; otherwise the result is m;
\*   - when 1000 v is not an integer it is at least 10^-3 away from one
\*     (at most 6 fraction digits), far more than the rounding error, and the
\*     result is floor(1000 v).
\* Readings here stay below 1000 units, so every intermediate fits.
LongOf1000Times(x) ==
    LET k == Len(x.frac)
        d == 10 ^ k
        n == x.int * d + DigitsValue(x.frac)
    IN  IF n = 0 THEN 0
        ELSE IF k > 3 THEN x.int * 1000 + ((DigitsValue(x.frac) * 1000) \div d)
        ELSE
          LET m == (1000 * n) \div d
              e == Log2Floor(n, d)
              a == IF e >= 0 THEN n ELSE n * (2 ^ (0 - e))
              b == IF e >= 0 THEN d * (2 ^ e) ELSE d
              rem == DivBits(a - b, b, 1, 52)
              r == rem[1]
              roundedUp == 2 * r > b \/ (2 * r = b /\ rem[2] = 1)
              em == Log2Floor(m, 1)
              s == em - e
              halfGap == IF m = 2 ^ em THEN b * (2 ^ (s - 1)) ELSE b * (2 ^ s)
          IN  IF r = 0 \/ roundedUp \/ 2000 * r <= halfGap THEN m ELSE m - 1

\* (long) x: a double within a rounding error of a decimal with a few
\* fraction digits truncates to the decimal's integer part.
LongOf(x) == x.int

\* buffer + s + 1 and the length l that getValue hands to strncpy.
getValueStart(buffer, maxlen, startchar) ==
    findCharInArrayRev(buffer, startchar, maxlen - 2)

getValueLen(buffer, maxlen, startchar, endchar) ==
    findCharInArrayRev(buffer, endchar, maxlen - 2)
        - getValueStart(buffer, maxlen, startchar) - 1

\* res after memset and strncpy(res, buffer + s + 1, l), for 0 <= l <= 16.
getValueRes(buffer, maxlen, startchar, endchar) ==
    LET s == getValueStart(buffer, maxlen, startchar)
        l == getValueLen(buffer, maxlen, startchar, endchar)
    IN  [i \in 1..16 |-> IF i <= l THEN At(buffer, s + i) ELSE NUL]

\* getValue has defined behaviour when strncpy stays inside res[16] (a negative
\* l is a huge size_t) and atof finds a NUL inside res.
getValueDefined(buffer, maxlen, startchar, endchar) ==
    LET l == getValueLen(buffer, maxlen, startchar, endchar)
    IN  /\ l >= 0
        /\ l <= 16
        /\ l = 16 =>
             ~ ( /\ endchar \in {"*", ")"}
                 /\ isNumber(getValueRes(buffer, maxlen, startchar, endchar), l) )

getValue(buffer, maxlen, startchar, endchar) ==
    LET l == getValueLen(buffer, maxlen, startchar, endchar)
        res == getValueRes(buffer, maxlen, startchar, endchar)
    IN  IF endchar = "*" /\ isNumber(res, l) THEN LongOf1000Times(atof(res))
        ELSE IF endchar = ")" /\ isNumber(res, l) THEN LongOf(atof(res))
        ELSE 0

-----------------------------------------------------------------------------
(* The readout table *)

\* settings.h: the number of slots of telegramObjects.  The table has the
\* slots setupDataReadout writes, 0..18.
NUMBER_OF_READOUTS == 19

Slots == 0..(NUMBER_OF_READOUTS - 1)

\* settings.h: a slot before setupDataReadout.  The default delimiters are
\* '(' and ')', the value is 0 and nothing is marked for sending.
TelegramDecodedObject ==
    [name |-> "", code |-> <<>>, startChar |-> "(", endChar |-> ")",
     value |-> 0, sendData |-> FALSE]

\* The assignments of setupDataReadout in source order: name and code go to
\* slot, and '*' goes to the endChar of endSlot (-1: no endChar assignment).
setupDataReadoutSteps == <<
    [slot |-> 0, name |-> "consumption_tarif_1", endSlot |-> 0,
     code |-> <<"1", "-", "0", ":", "1", ".", "8", ".", "1">>],
    [slot |-> 1, name |-> "consumption_tarif_2", endSlot |-> 1,
     code |-> <<"1", "-", "0", ":", "1", ".", "8", ".", "2">>],
    [slot |-> 0, name |-> "received_tarif_1", endSlot |-> 0,
     code |-> <<"1", "-", "0", ":", "2", ".", "8", ".", "1">>],
    [slot |-> 1, name |-> "received_tarif_2", endSlot |-> 1,
     code |-> <<"1", "-", "0", ":", "2", ".", "8", ".", "2">>],
    [slot |-> 2, name |-> "actual_consumption", endSlot |-> 2,
     code |-> <<"1", "-", "0", ":", "1", ".", "7", ".", "0">>],
    [slot |-> 3, name |-> "actual_received", endSlot |-> 3,
     code |-> <<"1", "-", "0", ":", "2", ".", "7", ".", "0">>],
    [slot |-> 4, name |-> "instant_power_usage_l1", endSlot |-> 4,
     code |-> <<"1", "-", "0", ":", "2", "1", ".", "7", ".", "0">>],
    [slot |-> 5, name |-> "instant_power_usage_l2", endSlot |-> 5,
     code |-> <<"1", "-", "0", ":", "4", "1", ".", "7", ".", "0">>],
    [slot |-> 6, name |-> "instant_power_usage_l3", endSlot |-> 6,
     code |-> <<"1", "-", "0", ":", "6", "1", ".", "7", ".", "0">>],
    [slot |-> 4, name |-> "instant_power_return_l1", endSlot |-> 4,
     code |-> <<"1", "-", "0", ":", "2", "2", ".", "7", ".", "0">>],
    [slot |-> 5, name |-> "instant_power_return_l2", endSlot |-> 5,
     code |-> <<"1", "-", "0", ":", "4", "2", ".", "7", ".", "0">>],
    [slot |-> 6, name |-> "instant_power_return_l3", endSlot |-> 6,
     code |-> <<"1", "-", "0", ":", "6", "2", ".", "7", ".", "0">>],
    [slot |-> 7, name |-> "instant_power_current_l1", endSlot |-> 7,
     code |-> <<"1", "-", "0", ":", "3", "1", ".", "7", ".", "0">>],
    [slot |-> 8, name |-> "instant_power_current_l2", endSlot |-> 8,
     code |-> <<"1", "-", "0", ":", "5", "1", ".", "7", ".", "0">>],
    [slot |-> 9, name |-> "instant_power_current_l3", endSlot |-> 9,
     code |-> <<"1", "-", "0", ":", "7", "1", ".", "7", ".", "0">>],
    [slot |-> 10, name |-> "instant_voltage_l1", endSlot |-> 10,
     code |-> <<"1", "-", "0", ":", "3", "2", ".", "7", ".", "0">>],
    [slot |-> 11, name |-> "instant_voltage_l2", endSlot |-> 11,
     code |-> <<"1", "-", "0", ":", "5", "2", ".", "7", ".", "0">>],
    [slot |-> 12, name |-> "instant_voltage_l3", endSlot |-> 12,
     code |-> <<"1", "-", "0", ":", "7", "2", ".", "7", ".", "0">>],
    [slot |-> 13, name |-> "actual_tarif_group", endSlot |-> -1,
     code |-> <<"0", "-", "0", ":", "9", "6", ".", "1", "4", ".", "0">>],
    [slot |-> 18, name |-> "gas_meter_m3", endSlot |-> 12,
     code |-> <<"0", "-", "1", ":", "2", "4", ".", "2", ".", "3">>]
>>

RECURSIVE setupDataReadoutFrom(_, _)
setupDataReadoutFrom(table, n) ==
    IF n = 0 THEN table
    ELSE LET t == setupDataReadoutFrom(table, n - 1)
             s == setupDataReadoutSteps[n]
             named == [t EXCEPT ![s.slot].name = s.name, ![s.slot].code = s.code]
         IN  IF s.endSlot >= 0 THEN [named EXCEPT ![s.endSlot].endChar = "*"]
             ELSE named

\* The table after setupDataReadout: what decodeTelegram matches lines against.
setupDataReadout ==
    setupDataReadoutFrom([i \in Slots |-> TelegramDecodedObject],
                         Len(setupDataReadoutSteps))

\* The slots setupDataReadout gives a code.
AssignedSlots == {setupDataReadoutSteps[n].slot : n \in 1..Len(setupDataReadoutSteps)}

-----------------------------------------------------------------------------
(* decodeTelegram *)

\* strtol(str, NULL, 16): leading white space, an optional sign, an optional
\* 0x, then the longest run of hexadecimal digits; 0 when there is none.
RECURSIVE HexDigitsValue(_, _)
HexDigitsValue(str, acc) ==
    IF str = <<>> \/ HexVal(str[1]) < 0 THEN acc
    ELSE HexDigitsValue(Tail(str), 16 * acc + HexVal(str[1]))

RECURSIVE strtol16(_)
strtol16(str) ==
    IF str = <<>> THEN 0
    ELSE IF IsSpace(str[1]) THEN strtol16(Tail(str))
    ELSE LET neg == str[1] = "-"
             s1 == IF str[1] \in {"+", "-"} THEN Tail(str) ELSE str
             s2 == IF /\ Len(s1) >= 3
                      /\ s1[1] = "0"
                      /\ s1[2] \in {"x", "X"}
                      /\ HexVal(s1[3]) >= 0
                   THEN Tail(Tail(s1)) ELSE s1
             v == HexDigitsValue(s2, 0)
         IN  IF neg THEN 0 - v ELSE v

\* messageCRC: the (at most) 4 characters strncpy takes after the end marker.
messageCRC(tel, endChar) ==
    LET str == CStr(tel, endChar + 1)
    IN  SubSeq(str, 1, IF Len(str) < 4 THEN Len(str) ELSE 4)

\* The checksum part of decodeTelegram, lines 465-505, started with currentCRC:
\* the checksum it ends with and validCRCFound.  The long is compared with
\* the unsigned int as a 32-bit unsigned value: a negative one is no less
\* than 2^31 and equals no checksum.
decodeTelegramCRC(currentCRC, tel, len) ==
    LET startChar == findCharInArrayRev(tel, "/", len)
        endChar == findCharInArrayRev(tel, "!", len)
    IN  IF startChar >= 0
        THEN [currentCRC |-> crc16(0, SubSeq(tel, startChar + 1, len), len - startChar),
              validCRCFound |-> FALSE]
        ELSE IF endChar >= 0
        THEN LET crc == crc16(currentCRC, SubSeq(tel, endChar + 1, len), 1)
                 msg == strtol16(messageCRC(tel, endChar))
             IN  [currentCRC |-> 0,
                  validCRCFound |-> msg >= 0 /\ msg = crc]
        ELSE [currentCRC |-> crc16(currentCRC, tel, len), validCRCFound |-> FALSE]

\* currentCRC is a local of decodeTelegram, set to 0 in every call (line 476),
\* so what decodeTelegram returns is decided by the line alone: a line
\* without '/' whose characters after the last '!' read as the checksum of
\* that '!'.
validCRCFound(tel, len) ==
    /\ findCharInArrayRev(tel, "/", len) < 0
    /\ findCharInArrayRev(tel, "!", len) >= 0
    /\ decodeTelegramCRC(0, tel, len).validCRCFound

\* strncmp(telegram, code, strlen(code)) == 0
CodeMatches(tel, code) == \A k \in 0..(Len(code) - 1) : At(tel, k) = code[k + 1]

\* The slot the loop of lines 509-525 stops at, -1 when no code matches.
MatchedSlot(tel) ==
    LET hits == {i \in Slots : CodeMatches(tel, setupDataReadout[i].code)}
    IN  IF hits = {} THEN -1 ELSE Min(hits)

\* The slot's entry written, and marked, whether or not the value is new.
StoreValueAlways(object, newValue) == [value |-> newValue, sendData |-> TRUE]

\* The slot's entry with sendData assigned the outcome of the comparison.
StoreValueAssigningMark(object, newValue) ==
    [value |-> newValue, sendData |-> newValue # object.value]

\* Lines 514-518: the slot's entry after newValue was decoded for it.
StoreValue(object, newValue) ==
    IF newValue # object.value THEN [value |-> newValue, sendData |-> TRUE]
    ELSE object

-----------------------------------------------------------------------------
(* The meter: what arrives on Serial2 *)

\* settings.h: the most bytes readBytesUntil stores for one line.
P1_MAXLINELENGTH == 1024

\* Complete lines the receive buffer may hold before the meter sends more.
MaxPending == 2

\* Where the meter may cut a line that it sends in two parts.
SplitAt == 14

\* The values a getValue call with undefined behaviour may come back with,
\* when it comes back.
UBValues == {0, 1}

HdrA ==
    <<"/", "A", "\r", "\n">>
HdrK ==
    <<"/", "K", "X", "L", "\r", "\n">>
HdrZ ==
    <<"/", "0", "T", "Q", "\r", "\n">>
LineA ==
    <<"1", "-", "0", ":", "1", ".", "7", ".", "0", "(", "0", "0", ".", "3",
      "7", "8", "*", "k", "W", ")", "\r", "\n">>
LineA1 ==
    <<"1", "-", "0", ":", "1", ".", "7", ".", "0", "(", "0", "1", ".", "0",
      "0", "1", "*", "k", "W", ")", "\r", "\n">>
LineN ==
    <<"1", "-", "0", ":", "1", ".", "7", ".", "0", "(", "0", "A", ".", "3",
      "7", "8", "*", "k", "W", ")", "\r", "\n">>
LineB ==
    <<"0", "-", "0", ":", "9", "6", ".", "7", ".", "2", "1", "(", "0", "0",
      "0", "0", "4", ")", "\r", "\n">>
LineT ==
    <<"0", "-", "0", ":", "9", "6", ".", "1", "4", ".", "0", "(", "0", "0",
      "0", "1", ")", "\r", "\n">>

\* Start line and data lines of the telegrams the meter sends.
Bodies == { <<HdrA, LineA>>, <<HdrZ, LineA>>, <<HdrK, LineB>> }

HexDigits == <<"0", "1", "2", "3", "4", "5", "6", "7",
               "8", "9", "A", "B", "C", "D", "E", "F">>

\* n < 65536 as four hexadecimal digits.
Hex4(n) ==
    << HexDigits[((n \div 4096) % 16) + 1], HexDigits[((n \div 256) % 16) + 1],
       HexDigits[((n \div 16) % 16) + 1], HexDigits[(n % 16) + 1] >>

\* The checksum of a telegram as the meter computes it: crc16 over every byte
\* of the lines, from the '/' that starts the first, and over the '!'.
RECURSIVE LinesCRC(_, _)
LinesCRC(crc, lines) ==
    IF lines = <<>> THEN crc
    ELSE LET next == crc16(crc, lines[1], Len(lines[1]))
         IN  IF next >= 0 THEN LinesCRC(next, Tail(lines)) ELSE next

TelegramCRC(body) == crc16(LinesCRC(0, body), <<"!">>, 1)

EndLine(hex) == <<"!">> \o hex \o <<"\r", "\n">>

\* A telegram ends with its checksum, or (a damaged one) with 18C0.
EndLines(body) == {EndLine(Hex4(TelegramCRC(body))), EndLine(<<"1", "8", "C", "0">>)}

Telegrams == UNION {{b \o <<e>> : e \in EndLines(b)} : b \in Bodies}

\* The number of complete lines in the receive buffer.
Pending(buf) == Cardinality({i \in 1..Len(buf) : buf[i] = "\n"})

MeterLine == meter.tele[meter.line]

MeterAdvance ==
    IF meter.line < Len(meter.tele)
    THEN {[meter EXCEPT !.line = @ + 1, !.part = 0]}
    ELSE {[tele |-> t, line |-> 1, part |-> 0] : t \in Telegrams}

\* The meter sends the line it is at, or what is left of it.
MeterSendBytes ==
    /\ Pending(rx) < MaxPending
    /\ rx' = rx \o SubSeq(MeterLine, meter.part + 1, Len(MeterLine))
    /\ meter' \in MeterAdvance
    /\ UNCHANGED <<telegramObjects, telegram, result, pc, sent, fed, pass, call>>

\* Bytes that arrive while loop is elsewhere are first seen at these places,
\* so the meter is only let run there.
MeterSend ==
    /\ pc \in {"update", "read", "avail"}
    /\ MeterSendBytes

\* The meter sends the first part of a line; the rest comes later.
MeterSendPart ==
    /\ pc \in {"update", "read", "avail"}
    /\ Pending(rx) < MaxPending
    /\ meter.part = 0
    /\ Len(MeterLine) > SplitAt
    /\ rx' = rx \o SubSeq(MeterLine, 1, SplitAt)
    /\ meter' = [meter EXCEPT !.part = SplitAt]
    /\ UNCHANGED <<telegramObjects, telegram, result, pc, sent, fed, pass, call>>

-----------------------------------------------------------------------------
(* loop, readP1Serial, decodeTelegram, sendDataToBroker *)

Has(line, c) == \E i \in 1..Len(line) : line[i] = c

Values(objects) == [i \in Slots |-> objects[i].value]

\* The lines decoded since the last line with a start marker, that line first;
\* empty before the first start marker and again after an end marker line.
FedAfter(tel) ==
    IF Has(tel, "/") THEN <<tel>>
    ELSE IF fed = <<>> \/ Has(fed[Len(fed)], "!") THEN <<>>
    ELSE Append(fed, tel)

\* lines is one telegram: a line with a start marker, lines with neither
\* marker, and a line with an end marker and no start marker.
IsTelegram(lines) ==
    /\ Len(lines) >= 2
    /\ Has(lines[1], "/")
    /\ \A n \in 2..(Len(lines) - 1) : ~Has(lines[n], "/") /\ ~Has(lines[n], "!")
    /\ Has(lines[Len(lines)], "!") /\ ~Has(lines[Len(lines)], "/")

\* The checksum the telegram lines ought to carry: crc16 from the start marker
\* through the end marker.
ChecksumOf(lines) ==
    LET first == lines[1]
        last == lines[Len(lines)]
        from == findCharInArrayRev(first, "/", Len(first))
        to == findCharInArrayRev(last, "!", Len(last))
        head == crc16(0, SubSeq(first, from + 1, Len(first)), Len(first) - from)
        body == LinesCRC(head, SubSeq(lines, 2, Len(lines) - 1))
    IN  crc16(body, last, to + 1)

\* The four characters after the end marker, when they are hexadecimal digits.
ChecksumDigits(lines) ==
    LET last == lines[Len(lines)]
        to == findCharInArrayRev(last, "!", Len(last))
    IN  SubSeq(last, to + 2, to + 5)

HasChecksumDigits(lines) ==
    /\ Len(ChecksumDigits(lines)) = 4
    /\ \A n \in 1..4 : HexVal(ChecksumDigits(lines)[n]) >= 0

TelegramValid(lines) ==
    /\ IsTelegram(lines)
    /\ HasChecksumDigits(lines)
    /\ HexDigitsValue(ChecksumDigits(lines), 0) = ChecksumOf(lines)

NoPrev == [tele |-> <<>>, value |-> [i \in Slots |-> 0]]

\* pass.fresh: nothing was decoded or marked since the last publish pass;
\* pass.only: what was decoded since is exactly fed, and no full update fired;
\* pass.prev: the telegram that led to the last publish pass, when its checksum
\* was right, and the values then.
PassAfter(tel) ==
    [pass EXCEPT !.fresh = FALSE,
                 !.only = IF Has(tel, "/") THEN pass.fresh
                          ELSE pass.only /\ FedAfter(tel) # <<>>]

\* readP1Serial going on to the next line whatever decodeTelegram returned.
readP1SerialNextIgnoringResult(res) == "avail"

\* readP1Serial after decodeTelegram returned res (lines 551-554): return true
\* to loop, which goes on to sendDataToBroker, or test Serial2.available() again.
readP1SerialNext(res) == IF res THEN "send" ELSE "avail"

\* decodeTelegram(telegram, len) on the line tel, and what readP1Serial does
\* with its result.  A matching slot whose getValue call has undefined
\* behaviour stores whatever comes back, or the call never comes back.
decodeTelegram(tel) ==
    LET len == Len(tel)
        i == MatchedSlot(tel)
        o == setupDataReadout[IF i = -1 THEN 0 ELSE i]
        defined == i = -1 \/ getValueDefined(tel, len, o.startChar, o.endChar)
        valid == validCRCFound(tel, len)
    IN  /\ telegram' = tel
        /\ fed' = FedAfter(tel)
        /\ pass' = PassAfter(tel)
        /\ \/ /\ defined
              /\ telegramObjects' =
                     IF i = -1 THEN telegramObjects
                     ELSE [telegramObjects EXCEPT
                             ![i] = StoreValue(@, getValue(tel, len, o.startChar, o.endChar))]
              /\ result' = valid
              /\ pc' = readP1SerialNext(valid)
           \/ /\ ~defined
              /\ \E newValue \in UBValues :
                     telegramObjects' =
                         [telegramObjects EXCEPT ![i] = StoreValue(@, newValue)]
              /\ result' = valid
              /\ pc' = readP1SerialNext(valid)
           \/ /\ ~defined
              /\ pc' = "crashed"
              /\ UNCHANGED <<telegramObjects, result>>

\* Serial2.readBytesUntil('\n', telegram, P1_MAXLINELENGTH) when it need not
\* wait: the bytes before the first '\n', which it takes out of the buffer
\* too, or the first P1_MAXLINELENGTH bytes when no '\n' is among them.
NewlineAt(buf) == Min({i \in 1..(Len(buf) + 1) : i = Len(buf) + 1 \/ buf[i] = "\n"})

readBytesUntilReady(buf) ==
    NewlineAt(buf) <= Len(buf) \/ Len(buf) >= P1_MAXLINELENGTH

readBytesUntil(buf) ==
    IF NewlineAt(buf) <= P1_MAXLINELENGTH /\ NewlineAt(buf) <= Len(buf)
    THEN [len |-> NewlineAt(buf) - 1, taken |-> NewlineAt(buf)]
    ELSE IF Len(buf) >= P1_MAXLINELENGTH
    THEN [len |-> P1_MAXLINELENGTH, taken |-> P1_MAXLINELENGTH]
    ELSE [len |-> Len(buf), taken |-> Len(buf)]

\* One pass of the while loop of readP1Serial (lines 539-554): a line is cut
\* from the receive buffer, '\n' is appended, and decodeTelegram is called.
ReadP1Line ==
    /\ pc = "read"
    /\ readBytesUntilReady(rx)
    /\ LET r == readBytesUntil(rx)
       IN  /\ rx' = SubSeq(rx, r.taken + 1, Len(rx))
           /\ decodeTelegram(Append(SubSeq(rx, 1, r.len), "\n"))
    /\ UNCHANGED <<sent, meter, call>>

\* The same pass when no '\n' arrives before readBytesUntil times out: it
\* returns the bytes it has.
ReadP1Timeout ==
    /\ pc = "read"
    /\ ~readBytesUntilReady(rx)
    /\ rx' = <<>>
    /\ decodeTelegram(Append(rx, "\n"))
    /\ UNCHANGED <<sent, meter, call>>

\* while (Serial2.available()): another pass, or readP1Serial returns false.
ReadP1Available ==
    /\ pc = "avail"
    /\ pc' = IF rx # <<>> THEN "read" ELSE "net"
    /\ UNCHANGED <<telegramObjects, rx, telegram, result, sent, meter, fed, pass, call>>

\* The loop of lines 111-115 stopping one slot short.
fullUpdateButLast(objects) ==
    [i \in Slots |-> IF i < NUMBER_OF_READOUTS - 1
                     THEN [objects[i] EXCEPT !.sendData = TRUE]
                     ELSE objects[i]]

\* Lines 111-115: every slot is marked for sending.
fullUpdate(objects) == [i \in Slots |-> [objects[i] EXCEPT !.sendData = TRUE]]

\* sendDataToBroker: sendMetric is called for the slots marked, each with its
\* value (whether the broker gets the message is not looked at: the result of
\* publish is dropped), and the slots are unmarked.
sendMetrics(objects) == {<<i, objects[i].value>> : i \in {j \in Slots : objects[j].sendData}}

sendDataToBroker(objects) ==
    [i \in Slots |-> IF objects[i].sendData
                     THEN [objects[i] EXCEPT !.sendData = FALSE]
                     ELSE objects[i]]

\* Lines 66-106 of loop: WiFi and MQTT are up, or cannot be brought up and
\* the device restarts.
LoopNet ==
    /\ pc = "net"
    /\ \/ pc' = "full"
       \/ pc' = "restart"
    /\ sent' = {}
    /\ UNCHANGED <<telegramObjects, rx, telegram, result, meter, fed, pass, call>>

\* Lines 108-116 of loop: the full update, when its interval has passed.
LoopFullUpdate ==
    /\ pc = "full"
    /\ \E due \in BOOLEAN :
         /\ telegramObjects' = IF due THEN fullUpdate(telegramObjects) ELSE telegramObjects
         /\ pass' = IF due THEN [pass EXCEPT !.fresh = FALSE, !.only = FALSE] ELSE pass
    /\ pc' = "update"
    /\ UNCHANGED <<rx, telegram, result, sent, meter, fed, call>>

\* Lines 118-120 of loop and 532-539 of readP1Serial: when the update interval
\* has passed readP1Serial is called, and returns false at once when no byte
\* is available.
LoopUpdate ==
    /\ pc = "update"
    /\ \E due \in BOOLEAN : pc' = IF due /\ rx # <<>> THEN "read" ELSE "net"
    /\ UNCHANGED <<telegramObjects, rx, telegram, result, sent, meter, fed, pass, call>>

\* Lines 122-123 of loop: readP1Serial returned true.
LoopSend ==
    /\ pc = "send"
    /\ sent' = sendMetrics(telegramObjects)
    /\ telegramObjects' = sendDataToBroker(telegramObjects)
    /\ pass' = [fresh |-> TRUE, only |-> TRUE,
                prev |-> IF TelegramValid(fed)
                         THEN [tele |-> fed, value |-> Values(telegramObjects)]
                         ELSE NoPrev]
    /\ pc' = "net"
    /\ UNCHANGED <<rx, telegram, result, meter, fed, call>>

\* No function is looked at on its own.
NoCall == [fn |-> "none"]

Init ==
    /\ telegramObjects = [i \in Slots |-> [value |-> TelegramDecodedObject.value,
                                          sendData |-> TelegramDecodedObject.sendData]]
    /\ rx = <<>>
    /\ telegram = <<>>
    /\ result = FALSE
    /\ pc = "net"
    /\ sent = {}
    /\ meter \in {[tele |-> t, line |-> n, part |-> 0] : t \in Telegrams, n \in 1..2}
    /\ fed = <<>>
    /\ pass = [fresh |-> TRUE, only |-> TRUE,
               prev |-> NoPrev]
    /\ call = NoCall

Next ==
    \/ MeterSend
    \/ MeterSendPart
    \/ LoopNet
    \/ LoopFullUpdate
    \/ LoopUpdate
    \/ ReadP1Line
    \/ ReadP1Timeout
    \/ ReadP1Available
    \/ LoopSend

Spec == Init /\ [][Next]_vars

-----------------------------------------------------------------------------
(* One line decoded, from any state of the readings *)

\* LineT as a meter that ends its lines with '\n' alone sends it.
LineTn ==
    <<"0", "-", "0", ":", "9", "6", ".", "1", "4", ".", "0", "(", "0", "0",
      "0", "1", ")", "\n">>

\* A reading with two decimal points.
LineD ==
    <<"1", "-", "0", ":", "1", ".", "7", ".", "0", "(", "1", ".", "2", ".",
      "3", "*", "k", "W", ")", "\r", "\n">>

\* A line cut before its end delimiter.
LineM ==
    <<"1", "-", "0", ":", "1", ".", "7", ".", "0", "(", "0", "0", ".", "3",
      "\r", "\n">>

\* A reading of seventeen characters between its delimiters.
LineL ==
    <<"1", "-", "0", ":", "1", ".", "7", ".", "0", "(", "0", "0", "0", "0",
      "0", "0", "0", "0", "0", "0", "0", "0", "0", ".", "3", "7", "8", "*",
      "k", "W", ")", "\r", "\n">>

\* The lines tried one at a time.
DecodeLines == {LineA, LineA1, LineN, LineB, LineT, LineTn, LineD, LineM, LineL}

\* The slots these lines are stored in, and the values one may hold when the
\* line arrives: 0 as set up, or what an earlier line left there.
PriorSlots == {2, 13, 14}

PriorValues(i) == IF i = 2 THEN {0, 378} ELSE IF i = 13 THEN {0, 1} ELSE {0, 4}

\* readP1Serial is about to read one line that has arrived whole.
InitDecode ==
    /\ \E prior \in [PriorSlots -> [value : {0, 1, 4, 378}, sendData : BOOLEAN]] :
         /\ \A i \in PriorSlots : prior[i].value \in PriorValues(i)
         /\ telegramObjects =
              [i \in Slots |-> IF i \in PriorSlots THEN prior[i]
                               ELSE [value |-> TelegramDecodedObject.value,
                                     sendData |-> TelegramDecodedObject.sendData]]
    /\ rx \in DecodeLines
    /\ telegram = <<>>
    /\ result = FALSE
    /\ pc = "read"
    /\ sent = {}
    /\ meter = [tele |-> <<HdrA>>, line |-> 1, part |-> 0]
    /\ fed = <<>>
    /\ pass = [fresh |-> FALSE, only |-> FALSE, prev |-> NoPrev]
    /\ call = NoCall

NextDecode == ReadP1Line

SpecDecode == InitDecode /\ [][NextDecode]_vars

-----------------------------------------------------------------------------
(* Claims *)

\* A step in which readP1Serial has decodeTelegram decode a line and act on
\* what it returns.
DecodeStep == pc = "read" /\ pc' \in {"avail", "send"}

\* A line without its last character.
Front(line) == SubSeq(line, 1, Len(line) - 1)

\* C1: when the lines decoded since the last start marker form one telegram
\* (a line with '/', data lines, a line with '!' and four hexadecimal digits),
\* decodeTelegram returns true on the line with '!' exactly when the four
\* digits are the CRC16, from 0, of all bytes from '/' through '!'.
C1_EndLineChecksumDecides ==
    ( /\ pc \in {"avail", "send"}
      /\ IsTelegram(fed)
      /\ HasChecksumDigits(fed)
      /\ telegram = fed[Len(fed)] )
    => (result = TelegramValid(fed))

\* C2: each line readP1Serial decodes is the oldest in the receive buffer,
\* and nothing behind it is taken; it returns true (loop goes on to send)
\* exactly when decodeTelegram returned true for that line, and otherwise
\* tests for more bytes, returning false exactly when there are none.
C2_ReturnsAtFirstValidLine ==
    [][ /\ DecodeStep =>
            /\ \/ rx = Front(telegram') \o <<"\n">> \o rx'
               \/ rx = Front(telegram') /\ rx' = <<>> /\ ~Has(rx, "\n")
            /\ telegram'[Len(telegram')] = "\n"
            /\ (pc' = "send") <=> result'
        /\ (pc = "avail" /\ pc' # "avail") =>
            /\ rx' = rx /\ telegram' = telegram /\ telegramObjects' = telegramObjects
            /\ (pc' = "net") <=> (rx = <<>>)
            /\ (pc' = "read") <=> (rx # <<>>)
        /\ pc = "send" => result /\ rx' = rx /\ telegram' = telegram
      ]_vars

\* A valid end line was decoded and readP1Serial returned true with a byte of
\* the next telegram still in the receive buffer.
C2_Witness == pc = "send" /\ result /\ rx # <<>> /\ telegram[1] = "!"

\* The characters of a line between the rightmost start delimiter and the
\* rightmost end delimiter of a slot, when they bound anything.
HasBoundedSubstring(tel, o) ==
    /\ findCharInArrayRev(tel, o.startChar, Len(tel)) >= 0
    /\ findCharInArrayRev(tel, o.endChar, Len(tel)) >
           findCharInArrayRev(tel, o.startChar, Len(tel))

BoundedSubstring(tel, o) ==
    SubSeq(tel, findCharInArrayRev(tel, o.startChar, Len(tel)) + 2,
                findCharInArrayRev(tel, o.endChar, Len(tel)))

\* Digits with at most one decimal point.
IsDecimalLiteral(str) ==
    /\ \E n \in 1..Len(str) : IsDigit(str[n])
    /\ \A n \in 1..Len(str) : IsDigit(str[n]) \/ str[n] = "."
    /\ Cardinality({n \in 1..Len(str) : str[n] = "."}) <= 1

\* floor(scale * v) for the decimal literal str of v, in exact arithmetic.
DecimalFloor(str, scale) ==
    LET dot == Min({n \in 1..(Len(str) + 1) : n = Len(str) + 1 \/ str[n] = "."})
        whole == SubSeq(str, 1, dot - 1)
        fraction == SubSeq(str, dot + 1, Len(str))
    IN  scale * DigitsValue(whole)
            + ((scale * DigitsValue(fraction)) \div (10 ^ Len(fraction)))

\* The line matches the code of a slot that setupDataReadout assigns, and the
\* slot's delimiters bound a decimal literal in it.
NumericFieldLine(tel) ==
    /\ MatchedSlot(tel) \in AssignedSlots
    /\ HasBoundedSubstring(tel, setupDataReadout[MatchedSlot(tel)])
    /\ IsDecimalLiteral(BoundedSubstring(tel, setupDataReadout[MatchedSlot(tel)]))

\* C3: after a line that matches a registered code and bounds a decimal
\* literal v has been decoded, the value of its Reading is floor(1000 * v)
\* when the end delimiter is '*' and floor(v) when it is ')'.
C3_NumericFieldValue ==
    (pc \in {"avail", "send"} /\ telegram # <<>> /\ NumericFieldLine(telegram)) =>
        LET o == setupDataReadout[MatchedSlot(telegram)]
        IN  telegramObjects[MatchedSlot(telegram)].value =
                DecimalFloor(BoundedSubstring(telegram, o),
                             IF o.endChar = "*" THEN 1000 ELSE 1)

\* C4: in a decodeTelegram step a Reading whose value changes is marked for
\* sending, a Reading whose value stays keeps its mark as it was, only the
\* Reading of the matched slot can change, and when getValue has defined
\* behaviour the value afterwards is the one it decoded.
C4_StoreOnlyOnChange ==
    [][ DecodeStep =>
          \A i \in Slots :
            /\ telegramObjects'[i].value # telegramObjects[i].value
                   => telegramObjects'[i].sendData
            /\ telegramObjects'[i].value = telegramObjects[i].value
                   => telegramObjects'[i].sendData = telegramObjects[i].sendData
            /\ i # MatchedSlot(telegram') => telegramObjects'[i] = telegramObjects[i]
            /\ ( /\ i = MatchedSlot(telegram')
                 /\ getValueDefined(telegram', Len(telegram'),
                                    setupDataReadout[i].startChar,
                                    setupDataReadout[i].endChar) )
                   => telegramObjects'[i].value =
                          getValue(telegram', Len(telegram'),
                                   setupDataReadout[i].startChar,
                                   setupDataReadout[i].endChar)
      ]_vars

\* The line 1-0:1.7.0(00.378*kW) was decoded again after its Reading had
\* been published: the value stays 378 and the Reading stays unmarked.
C4_Witness ==
    /\ pc = "avail"
    /\ telegram = LineA
    /\ telegramObjects[2].value = 378
    /\ ~telegramObjects[2].sendData

\* C5: a decodeTelegram step on a line that matches a registered code but
\* bounds no decimal literal leaves the matched Reading's value and mark as
\* they were.
C5_NonNumericKeepsReading ==
    [][ ( /\ DecodeStep
          /\ MatchedSlot(telegram') \in AssignedSlots
          /\ ~NumericFieldLine(telegram') )
        => telegramObjects'[MatchedSlot(telegram')]
               = telegramObjects[MatchedSlot(telegram')]
      ]_vars

\* The line starts with one of the codes setupDataReadout assigns.
HasAssignedCode(tel) ==
    \E n \in 1..Len(setupDataReadoutSteps) :
        CodeMatches(tel, setupDataReadoutSteps[n].code)

\* C6: a decodeTelegram step on a line that starts with none of the codes
\* assigned in setupDataReadout leaves the value and mark of every slot
\* 0..NUMBER_OF_READOUTS-1 as they were.
C6_UnknownLineIgnored ==
    [][ (DecodeStep /\ ~HasAssignedCode(telegram'))
        => telegramObjects' = telegramObjects ]_vars

\* C7: a Reading's mark goes from set to clear only in the sendDataToBroker
\* step, which publishes exactly the Readings that were marked, each with its
\* value, clears the mark of each and changes no value; no decodeTelegram
\* step and no full update clears a mark.
C7_MarkClearedOnlyBySending ==
    [][ /\ \A i \in Slots :
              (telegramObjects[i].sendData /\ ~telegramObjects'[i].sendData)
                  => (pc = "send" /\ <<i, telegramObjects[i].value>> \in sent')
        /\ (pc = "send" /\ pc' = "net") =>
              /\ sent' = {<<i, telegramObjects[i].value>> :
                              i \in {j \in Slots : telegramObjects[j].sendData}}
              /\ \A i \in Slots : /\ ~telegramObjects'[i].sendData
                                  /\ telegramObjects'[i].value = telegramObjects[i].value
      ]_vars

\* Every Reading was marked, by a full update and by the decoder, and
\* sendDataToBroker has published them all and cleared every mark.
C7_Witness ==
    /\ pc = "net"
    /\ <<2, 378>> \in sent
    /\ Cardinality(sent) = NUMBER_OF_READOUTS
    /\ \A i \in Slots : ~telegramObjects[i].sendData

\* C8: a full update that changes anything leaves every slot
\* 0..NUMBER_OF_READOUTS-1 marked for sending and every value as it was.
C8_FullUpdateMarksAll ==
    [][ (pc = "full" /\ telegramObjects' # telegramObjects) =>
            \A i \in Slots : /\ telegramObjects'[i].sendData
                             /\ telegramObjects'[i].value = telegramObjects[i].value
      ]_vars

\* A full update has just marked every Reading, among them one whose value
\* is not 0.
C8_Witness ==
    /\ pc = "update"
    /\ ~pass.only
    /\ telegramObjects[2].value = 378
    /\ \A i \in Slots : telegramObjects[i].sendData

\* C9: when a telegram with the right checksum led to a publish pass, and
\* the same telegram and nothing else has been decoded since, without a full
\* update, then at the end of this second pass every value is what it was at
\* the end of the first and no Reading is marked.
C9_SecondPassIdempotent ==
    ( /\ pc = "send"
      /\ pass.only
      /\ pass.prev.tele # <<>>
      /\ fed = pass.prev.tele )
    => /\ Values(telegramObjects) = pass.prev.value
       /\ \A i \in Slots : ~telegramObjects[i].sendData

\* The lines the meter sends.
MeterLines == UNION {{t[n] : n \in 1..Len(t)} : t \in Telegrams}

\* C10: every line handed to decodeTelegram is a whole line of the meter: a
\* line that arrives in two parts is decoded once, put together.
C10_OnlyWholeLinesDecoded ==
    [][ (pc = "read" /\ pc' # "read") => telegram' \in MeterLines ]_vars

-----------------------------------------------------------------------------
(* The device kept running on a meter that sends only telegrams with the right
   checksum, whole line by whole line *)

ValidTelegrams == {t \in Telegrams : TelegramValid(t)}

InitLive == Init /\ meter.tele \in ValidTelegrams /\ meter.line = 1

\* The meter sends its next line once the last one has been read, whatever
\* loop is doing.
MeterSendValid ==
    /\ pc \notin {"crashed", "restart"}
    /\ rx = <<>>
    /\ MeterSendBytes
    /\ meter'.tele \in ValidTelegrams

\* WiFi and MQTT stay up: no restart.
LoopNetUp == LoopNet /\ pc' = "full"

\* The update interval has passed whenever loop looks.
LoopUpdateDue == LoopUpdate /\ (rx # <<>> => pc' = "read")

\* readP1Serial reads a line and decodeTelegram comes back.
ReadP1LineOn == ReadP1Line /\ pc' # "crashed"

NextLive ==
    \/ MeterSendValid
    \/ LoopNetUp
    \/ LoopFullUpdate
    \/ LoopUpdateDue
    \/ ReadP1LineOn
    \/ ReadP1Available
    \/ LoopSend

\* loop is called again and again and the meter goes on sending.  At "read"
\* a whole line is waiting and at "send" nothing is waited for, so weak
\* fairness of ReadP1LineOn and of LoopSend says no more than that loop does
\* not stay there for ever.
FairLive ==
    /\ WF_vars(MeterSendValid)
    /\ WF_vars(LoopNetUp)
    /\ WF_vars(LoopFullUpdate)
    /\ WF_vars(LoopUpdateDue)
    /\ WF_vars(ReadP1Available)
    /\ []<>(pc # "read")
    /\ []<>(pc # "send")

SpecLive == InitLive /\ [][NextLive]_vars /\ FairLive

\* Every Reading is marked for sending.
AllMarked == \A i \in Slots : telegramObjects[i].sendData

\* sendDataToBroker has just called sendMetric for every Reading and cleared
\* every mark.
AllPublished ==
    /\ {m[1] : m \in sent} = Slots
    /\ \A i \in Slots : ~telegramObjects[i].sendData

\* C11: on a device that keeps running, with a meter that keeps sending
\* telegrams with the right checksum, whenever every Reading is marked (as a
\* full update leaves them) every Reading is eventually handed to sendMetric
\* and unmarked.
C11_FullUpdateEventuallyPublished == AllMarked ~> AllPublished

-----------------------------------------------------------------------------
(* crc16 called on its own *)

\* The longest buffer tried.
MaxCrcLen == 3

CrcSeeds == {0, 1, 255, 256, 6336, 32768, 40961, 65535}

CrcBytes == {"!", "/", "0", "A", "\n", "z"}

CrcBuffers == UNION {[1..k -> CrcBytes] : k \in 0..MaxCrcLen}

InitCrc ==
    /\ telegramObjects = [i \in Slots |-> [value |-> TelegramDecodedObject.value,
                                          sendData |-> TelegramDecodedObject.sendData]]
    /\ rx = <<>>
    /\ telegram = <<>>
    /\ result = FALSE
    /\ pc = "net"
    /\ sent = {}
    /\ meter = [tele |-> <<HdrA>>, line |-> 1, part |-> 0]
    /\ fed = <<>>
    /\ pass = [fresh |-> TRUE, only |-> TRUE, prev |-> NoPrev]
    /\ \E crc \in CrcSeeds, buf \in CrcBuffers :
           call = [fn |-> "crc16", crc |-> crc, buf |-> buf, returned |-> FALSE]

\* crc16(call.crc, call.buf, len) returns.
Crc16Call ==
    /\ call.fn = "crc16"
    /\ ~call.returned
    /\ call' = [fn |-> "crc16", crc |-> call.crc, buf |-> call.buf, returned |-> TRUE,
                value |-> crc16(call.crc, call.buf, Len(call.buf))]
    /\ UNCHANGED <<telegramObjects, rx, telegram, result, pc, sent, meter, fed, pass>>

NextCrc == Crc16Call

SpecCrc == InitCrc /\ [][NextCrc]_vars

\* x, a value of n bits, with its bits in the opposite order.
RECURSIVE Reflect(_, _)
Reflect(x, n) ==
    IF n = 0 THEN 0
    ELSE (x % 2) * (2 ^ (n - 1)) + Reflect(x \div 2, n - 1)

\* The reference CRC-16 with polynomial x^16 + x^15 + x^2 + 1 as a shift
\* register that moves left (0x8005; 0xA001 is the same polynomial written
\* for a register that moves right): one message bit goes in.
RefCrcBit(reg, bit) ==
    LET top == reg \div 32768
        shifted == (2 * reg) % 65536
    IN  IF top # bit THEN Xor(shifted, 32773) ELSE shifted

\* The bits of the bytes from position pos go in, least significant first.
RECURSIVE RefCrcFrom(_, _, _, _)
RefCrcFrom(reg, buf, pos, k) ==
    IF pos > Len(buf) THEN reg
    ELSE LET next == RefCrcBit(reg, (Ord[buf[pos]] \div (2 ^ k)) % 2)
         IN  IF next < 0 THEN next
             ELSE IF k = 7 THEN RefCrcFrom(next, buf, pos + 1, 0)
             ELSE RefCrcFrom(next, buf, pos, k + 1)

\* The reflected CRC-16 of buf from seed: register and result are mirrored.
RefCrc16(seed, buf) == Reflect(RefCrcFrom(Reflect(seed, 16), buf, 1, 0), 16)

\* C12: what crc16 returns for a 16-bit seed and a buffer is the reflected
\* CRC-16 with polynomial 0xA001 of the buffer from that seed, it fits in 16
\* bits, and it is what crc16 gives for the second part of the buffer from
\* the checksum of the first part, wherever the buffer is cut.
C12_Crc16IsReflectedCrc ==
    (call.fn = "crc16" /\ call.returned) =>
        /\ call.value = RefCrc16(call.crc, call.buf)
        /\ call.value \in 0..65535
        /\ \A k \in 0..Len(call.buf) :
               crc16(crc16(call.crc, SubSeq(call.buf, 1, k), k),
                     SubSeq(call.buf, k + 1, Len(call.buf)), Len(call.buf) - k)
                   = call.value

\* crc16 has returned for a seed that is not 0 and a buffer of two bytes or
\* more.
C12_Witness ==
    /\ call.fn = "crc16"
    /\ call.returned
    /\ call.crc = 40961
    /\ Len(call.buf) >= 2
    /\ call.value # 0

\* currentCRC when decodeTelegram returns from decoding tel: the local starts
\* from 0 (line 476) and ends with what lines 478-505 assign.
currentCRCAtReturn(tel) == decodeTelegramCRC(0, tel, Len(tel)).currentCRC

\* lines is a line with a start marker followed by one data line or more.
IsTelegramStart(lines) ==
    /\ Len(lines) >= 2
    /\ Has(lines[1], "/")
    /\ \A n \in 2..Len(lines) : ~Has(lines[n], "/") /\ ~Has(lines[n], "!")

\* C13: when decodeTelegram has decoded a start line and data lines L1..Ln,
\* the running checksum it is left with is the CRC16 of the start line from
\* '/' followed by L1..Ln: each data line is folded into the checksum the
\* call before left.
C13_RunningChecksumCarried ==
    ( /\ pc = "avail"
      /\ IsTelegramStart(fed)
      /\ telegram = fed[Len(fed)] )
    => currentCRCAtReturn(telegram) =
           LinesCRC(crc16(0, SubSeq(fed[1],
                                    findCharInArrayRev(fed[1], "/", Len(fed[1])) + 1,
                                    Len(fed[1])),
                          Len(fed[1]) - findCharInArrayRev(fed[1], "/", Len(fed[1]))),
                    Tail(fed))

\* The slots whose code the line starts with.
MatchingSlots(tel) == {i \in Slots : CodeMatches(tel, setupDataReadout[i].code)}

\* C14: in the table setupDataReadout leaves, no two slots of
\* 0..NUMBER_OF_READOUTS-1 have the same code and no slot has the empty
\* code, and a line that has been decoded starts with the code of one slot
\* at most.
C14_CodesDistinct ==
    /\ \A i \in Slots : setupDataReadout[i].code # <<>>
    /\ \A i, j \in Slots :
           i # j => setupDataReadout[i].code # setupDataReadout[j].code
    /\ (pc \in {"avail", "send"} /\ telegram # <<>>)
           => Cardinality(MatchingSlots(telegram)) <= 1

\* C15: the line 0-0:96.14.0(0001) sets actual_tarif_group, the reading of
\* slot 13, to 1 whether it ends in "\r\n" or in "\n" alone.
C15_TerminatorIndependent ==
    (pc # "read" /\ Front(telegram) \in {Front(LineT), Front(LineTn)})
        => (pc \in {"avail", "send"} /\ telegramObjects[13].value = 1)

\* The number of decimal points of a string.
Points(str) == Cardinality({n \in 1..Len(str) : str[n] = "."})

\* C16: when the substring a matching line bounds between its delimiters has
\* two or more decimal points, or a character that is neither a digit nor a
\* decimal point, decoding the line leaves the value of the Reading as it was.
C16_TwoPointsRejected ==
    [][ ( /\ DecodeStep
          /\ MatchedSlot(telegram') \in AssignedSlots
          /\ HasBoundedSubstring(telegram', setupDataReadout[MatchedSlot(telegram')])
          /\ LET str == BoundedSubstring(telegram',
                                         setupDataReadout[MatchedSlot(telegram')])
             IN  \/ Points(str) >= 2
                 \/ \E n \in 1..Len(str) : ~IsDigit(str[n]) /\ str[n] # "." )
        => telegramObjects'[MatchedSlot(telegram')].value
               = telegramObjects[MatchedSlot(telegram')].value
      ]_vars

\* Both delimiters of the slot are found where getValue looks for them, and
\* what lies between them fits the 16 bytes of res with its terminating NUL.
SpanFits(tel, o) ==
    /\ findCharInArrayRev(tel, o.startChar, Len(tel) - 2) >= 0
    /\ findCharInArrayRev(tel, o.endChar, Len(tel) - 2) >= 0
    /\ getValueLen(tel, Len(tel), o.startChar, o.endChar) \in 0..15

\* C17: when a line that starts with a code setupDataReadout assigns lacks a
\* delimiter, has its end delimiter before its start delimiter, or has more
\* than 15 characters between them, decoding it copies nothing outside the
\* scratch buffer (the call comes back) and leaves every Reading as it was.
C17_SpanCheckedBeforeCopy ==
    [][ ( /\ pc = "read"
          /\ pc' # "read"
          /\ MatchedSlot(telegram') \in AssignedSlots
          /\ ~SpanFits(telegram', setupDataReadout[MatchedSlot(telegram')]) )
        => ( /\ pc' # "crashed"
             /\ telegramObjects' = telegramObjects )
      ]_vars

-----------------------------------------------------------------------------
(* Lines about as long as the telegram buffer *)

\* How far below and above P1_MAXLINELENGTH the lengths of the lines go.
LongBy == 3

Pad(n, c) == [i \in 1..n |-> c]

\* A reading followed by padding, n bytes before the '\n'.
LongLine(n, c) == SubSeq(LineA, 1, 20) \o Pad(n - 20, c) \o <<"\n">>

LongLines ==
    {LongLine(n, c) : n \in (P1_MAXLINELENGTH - LongBy)..(P1_MAXLINELENGTH + LongBy),
                      c \in {"0", " "}}

\* settings.h: the bytes of the telegram buffer, one maximum line length.
TelegramSize == P1_MAXLINELENGTH

\* readP1Serial is about to read a long line that has arrived whole.
InitLong ==
    /\ \E prior \in [value : PriorValues(2), sendData : BOOLEAN] :
         telegramObjects =
              [i \in Slots |-> IF i = 2 THEN prior
                               ELSE [value |-> TelegramDecodedObject.value,
                                     sendData |-> TelegramDecodedObject.sendData]]
    /\ rx \in LongLines
    /\ telegram = <<>>
    /\ result = FALSE
    /\ pc = "read"
    /\ sent = {}
    /\ meter = [tele |-> <<HdrA>>, line |-> 1, part |-> 0]
    /\ fed = <<>>
    /\ pass = [fresh |-> FALSE, only |-> FALSE, prev |-> NoPrev]
    /\ call = NoCall

NextLong == ReadP1Line \/ ReadP1Available

SpecLong == InitLong /\ [][NextLong]_vars

\* C18: the length readP1Serial hands to decodeTelegram, the appended '\n'
\* counted, is at most P1_MAXLINELENGTH, and the '\n' at telegram[len] and the
\* NUL at telegram[len + 1] are written inside the telegram buffer; of a
\* longer line the first P1_MAXLINELENGTH bytes are decoded.
C18_LineFitsBuffer ==
    [][ (pc = "read" /\ pc' # "read") =>
          /\ Len(telegram') <= P1_MAXLINELENGTH
          /\ Len(telegram') < TelegramSize
          /\ telegram' = SubSeq(rx, 1, Min({NewlineAt(rx) - 1, P1_MAXLINELENGTH}))
                              \o <<"\n">>
      ]_vars

-----------------------------------------------------------------------------
(* A telegram with a wrong checksum, then telegrams with the right one *)

\* The reading 00.378 in a telegram whose checksum line does not match.
BadTelegram == <<HdrA, LineA, EndLine(<<"0", "0", "0", "0">>)>>

\* A telegram that carries its own checksum and has no line for slot 2.
GoodTelegram == <<HdrK, LineB, EndLine(Hex4(TelegramCRC(<<HdrK, LineB>>)))>>

\* The meter sends BadTelegram once and GoodTelegram ever after.
InitPublish ==
    /\ telegramObjects = [i \in Slots |-> [value |-> TelegramDecodedObject.value,
                                          sendData |-> TelegramDecodedObject.sendData]]
    /\ rx = <<>>
    /\ telegram = <<>>
    /\ result = FALSE
    /\ pc = "net"
    /\ sent = {}
    /\ meter = [tele |-> BadTelegram, line |-> 1, part |-> 0]
    /\ fed = <<>>
    /\ pass = [fresh |-> TRUE, only |-> TRUE, prev |-> NoPrev]
    /\ call = NoCall

MeterSendNext == MeterSend /\ meter'.tele \in {meter.tele, GoodTelegram}

NextPublish ==
    \/ MeterSendNext
    \/ MeterSendPart
    \/ LoopNet
    \/ LoopFullUpdate
    \/ LoopUpdate
    \/ ReadP1Line
    \/ ReadP1Timeout
    \/ ReadP1Available
    \/ LoopSend

SpecPublish == InitPublish /\ [][NextPublish]_vars

\* Some line of the telegram is stored in the slot with that value.
DecodedFrom(lines, i, v) ==
    \E n \in 1..Len(lines) :
        /\ MatchedSlot(lines[n]) = i
        /\ getValue(lines[n], Len(lines[n]),
                    setupDataReadout[i].startChar, setupDataReadout[i].endChar) = v

\* C19: a value published for a slot setupDataReadout assigns is 0, as set
\* up, or was decoded from a line of a telegram whose checksum matched; here
\* GoodTelegram is the only such telegram, so the 378 of BadTelegram is never
\* published.
C19_OnlyValidatedPublished ==
    \A m \in sent :
        m[1] \in AssignedSlots =>
            (m[2] = 0 \/ DecodedFrom(GoodTelegram, m[1], m[2]))

-----------------------------------------------------------------------------
(* loop and mqttReconnect *)

\* MQTT_MAX_RECONNECT_TRIES is set in settings.h: every value from 1 up to
\* this one is tried.
MaxTries == 3

\* call holds the MQTT client and the call of mqttReconnect:
\*   max: MQTT_MAX_RECONNECT_TRIES;  connected: mqttClient.connected();
\*   retries: MQTT_RECONNECT_RETRIES;  attempts: the calls of connect made;
\*   at: where the call is;  value: what it returned.
InitMqtt ==
    /\ telegramObjects = [i \in Slots |-> [value |-> TelegramDecodedObject.value,
                                          sendData |-> TelegramDecodedObject.sendData]]
    /\ rx = <<>>
    /\ telegram = <<>>
    /\ result = FALSE
    /\ pc = "net"
    /\ sent = {}
    /\ meter = [tele |-> GoodTelegram, line |-> 1, part |-> 0]
    /\ fed = <<>>
    /\ pass = [fresh |-> TRUE, only |-> TRUE, prev |-> NoPrev]
    /\ \E max \in 1..MaxTries :
         call = [fn |-> "mqttReconnect", max |-> max, connected |-> FALSE,
                 retries |-> 0, attempts |-> 0, at |-> "idle", value |-> FALSE]

\* Lines 83-106 of loop: with the client connected mqttClient.loop() runs;
\* otherwise mqttReconnect is called when 5 s have passed since the last call.
LoopMqtt ==
    /\ pc = "net"
    /\ \/ /\ call.connected
          /\ pc' = "full"
          /\ call' = call
       \/ /\ ~call.connected
          /\ \E due \in BOOLEAN :
               IF due
               THEN /\ pc' = "mqtt"
                    /\ call' = [call EXCEPT !.retries = 0, !.attempts = 0,
                                            !.at = "while"]
               ELSE /\ pc' = "full"
                    /\ call' = call
    /\ sent' = {}
    /\ UNCHANGED <<telegramObjects, rx, telegram, result, meter, fed, pass>>

\* Lines 319-321: the test of the while loop, and the increment in its body.
MqttWhile ==
    /\ pc = "mqtt"
    /\ call.at = "while"
    /\ call' = IF ~call.connected /\ call.retries < call.max
               THEN [call EXCEPT !.retries = @ + 1, !.at = "connect"]
               ELSE [call EXCEPT !.at = "if"]
    /\ UNCHANGED <<telegramObjects, rx, telegram, result, pc, sent, meter, fed, pass>>

\* Lines 323-333: mqttClient.connect succeeds or fails (then delay(5000)).
MqttConnect ==
    /\ pc = "mqtt"
    /\ call.at = "connect"
    /\ \E ok \in BOOLEAN :
         call' = [call EXCEPT !.connected = ok, !.attempts = @ + 1, !.at = "while"]
    /\ UNCHANGED <<telegramObjects, rx, telegram, result, pc, sent, meter, fed, pass>>

\* Lines 336-341: what mqttReconnect returns.
MqttReturn ==
    /\ pc = "mqtt"
    /\ call.at = "if"
    /\ call' = [call EXCEPT !.value = ~(call.retries >= call.max),
                            !.at = "returned"]
    /\ UNCHANGED <<telegramObjects, rx, telegram, result, pc, sent, meter, fed, pass>>

\* Lines 89-100 of loop: ESP.restart() when mqttReconnect returned false.
LoopMqttReturned ==
    /\ pc = "mqtt"
    /\ call.at = "returned"
    /\ pc' = IF ~call.value THEN "restart" ELSE "full"
    /\ call' = [call EXCEPT !.at = "idle"]
    /\ UNCHANGED <<telegramObjects, rx, telegram, result, sent, meter, fed, pass>>

\* The broker or the network drops the connection while loop is elsewhere.
MqttDrop ==
    /\ pc \in {"full", "update"}
    /\ call.connected
    /\ call' = [call EXCEPT !.connected = FALSE]
    /\ UNCHANGED <<telegramObjects, rx, telegram, result, pc, sent, meter, fed, pass>>

NextMqtt ==
    \/ LoopMqtt
    \/ MqttWhile
    \/ MqttConnect
    \/ MqttReturn
    \/ LoopMqttReturned
    \/ MqttDrop
    \/ LoopFullUpdate
    \/ LoopUpdate

SpecMqtt == InitMqtt /\ [][NextMqtt]_vars

\* C20: mqttReconnect calls connect at most MQTT_MAX_RECONNECT_TRIES times,
\* returns true exactly when the client is connected as it returns, and loop
\* restarts the device only when no attempt connected.
C20_ReconnectReportsConnection ==
    [][ /\ call'.attempts <= call'.max
        /\ (call.at = "if" /\ call'.at = "returned")
               => (call'.value <=> call'.connected)
        /\ (pc = "mqtt" /\ pc' = "restart") => ~call'.connected
      ]_vars

====
